---- MODULE Spec2Model ----
(***************************************************************************)
(* Recursive QAOA (orquestra.vqa.opt.recursive_qaoa): the recursion        *)
(* controller, the correlation scorer, the variable (qubit) map, the       *)
(* Hamiltonian reducer and the back-mapping of reduced solutions.          *)
(*                                                                         *)
(* Representation.  A PauliTerm made of Z operators is a record            *)
(* [qubits |-> set of qubit indices, coefficient |-> integer]; a PauliSum   *)
(* is the sequence of its terms (PauliSum.terms).  Real coefficients and   *)
(* expectation values are scaled to integers (the test Hamiltonian         *)
(* 5, 2, 0.5, 0.6 is held as 50, 20, 5, 6).  A qubit map is a function     *)
(* from the original qubit i to the pair <<current qubit, sign>>, the      *)
(* Python list qubit_map[i] = [qubit, sign].  A solution is a sequence of  *)
(* bits; Python position q is TLA+ position q + 1.                         *)
(***************************************************************************)
EXTENDS Integers, Sequences, FiniteSets, TLC

VARIABLES
    pc,                       \* position of the run / of the function call
    n_c,                      \* RecursiveQAOA._n_c (constructor argument)
    self_cost_hamiltonian,    \* RecursiveQAOA._cost_hamiltonian
    cost_hamiltonian,         \* argument of the current _recursive_minimize
    qubit_map,                \* argument of the current _recursive_minimize
    nit,                      \* accumulated iterations
    nfev,                     \* accumulated evaluations
    expvals,                  \* expectation value of each term (scorer input)
    term_with_largest_expval, \* scorer output
    largest_expval,           \* scorer output
    new_qubit_map,            \* _update_qubit_map output
    reduced_cost_hamiltonian, \* _create_reduced_hamiltonian output
    reduced_solutions,        \* exhaustive-search output / back-map input
    solutions,                \* opt_solutions
    opt_value,                \* opt_value
    n_recursions,             \* calls of _recursive_minimize so far
    n_optimizer_calls,        \* calls of inner_optimizer.minimize so far
    evaluated,                \* positions of the terms the scorer evaluated
    lib,                      \* how PauliTerm treats a malformed operator string
    error,                    \* "none", or the exception that ended the call
    self_ansatz,              \* cost Hamiltonian of RecursiveQAOA._ansatz
    ansatz,                   \* cost Hamiltonian of the level's copy of the ansatz
    frames,                   \* arguments of the levels waiting for a deeper one
    inner_optimizer,          \* RecursiveQAOA._inner_optimizer: the reports it gives
    keep_history,             \* argument of minimize
    histories,                \* histories["history"]
    level_reports,            \* what inner_optimizer.minimize reported, per level
    evaluations,              \* what the term evaluation gave, per Hamiltonian
    calls_left,               \* calls of minimize the caller has still to make
    first_result,             \* the result of the caller's first call of minimize
    qubit_operator,           \* argument of group_comeasureable_terms_greedy
    sort_terms,               \* argument of group_comeasureable_terms_greedy
    groups                    \* what group_comeasureable_terms_greedy returns

vars == <<pc, n_c, self_cost_hamiltonian, cost_hamiltonian, qubit_map, nit, nfev,
          expvals, term_with_largest_expval, largest_expval, new_qubit_map,
          reduced_cost_hamiltonian, reduced_solutions, solutions, opt_value,
          n_recursions, n_optimizer_calls, evaluated, lib, error, self_ansatz,
          ansatz, frames, inner_optimizer, keep_history, histories, level_reports,
          evaluations, calls_left, first_result, qubit_operator, sort_terms,
          groups>>

\* The fields __init__ sets besides n_c and the cost Hamiltonian.
object_vars == <<self_ansatz, inner_optimizer>>

\* What the caller of minimize holds.
caller_vars == <<keep_history, calls_left, first_result>>

\* What a run accumulates over its levels.
history_vars == <<histories, level_reports>>

\* The arguments and the result of the grouping.
grouping_vars == <<qubit_operator, sort_terms, groups>>

(***************************************************************************)
(* Bounds of the model.                                                    *)
(***************************************************************************)
\* Largest number of qubits of an enumerated Hamiltonian.
MaxQubits == 3

\* Largest number of terms of an enumerated Hamiltonian.
MaxTerms == 3

\* Largest magnitude of an enumerated expectation value (function calls).
MaxExpval == 2

\* Largest number of original qubits of an enumerated qubit map.
MaxMapSize == 3

(***************************************************************************)
(* Integers and sets.                                                      *)
(***************************************************************************)
Max(S) == CHOOSE x \in S : \A y \in S : y <= x

Min(S) == CHOOSE x \in S : \A y \in S : x <= y

Abs(x) == IF x < 0 THEN -x ELSE x

\* np.sign
Sign(x) == IF x > 0 THEN 1 ELSE IF x < 0 THEN -1 ELSE 0

RECURSIVE Pow2(_)
Pow2(k) == IF k = 0 THEN 1 ELSE 2 * Pow2(k - 1)

\* sorted(term.qubits), as a sequence
RECURSIVE SortedQubits(_)
SortedQubits(S) ==
    IF S = {} THEN << >>
    ELSE <<Min(S)>> \o SortedQubits(S \ {Min(S)})

(***************************************************************************)
(* orquestra.quantum.operators, as far as recursive_qaoa.py uses it.       *)
(***************************************************************************)
\* PauliTerm(...) with only Z operators on the given qubits.
PauliTerm(qs, c) == [qubits |-> qs, coefficient |-> c]

\* term.is_constant
IsConstant(term) == term.qubits = {}

\* The qubits appearing in a sequence of terms.
QubitsOf(H) == UNION {H[i].qubits : i \in DOMAIN H}

\* PauliSum.n_qubits: the largest qubit index appearing, plus one; 0 without
\* any (line 165: "the reduced cost hamiltonian would be empty and say it has
\* 0 qubits").
NQubits(H) == IF QubitsOf(H) = {} THEN 0 ELSE Max(QubitsOf(H)) + 1

\* Position of the term of H on the qubits qs, 0 when there is none.
PositionOf(H, qs) ==
    IF \E i \in DOMAIN H : H[i].qubits = qs
    THEN CHOOSE i \in DOMAIN H : H[i].qubits = qs
    ELSE 0

\* H without its i-th term.
RemoveAt(H, i) == SubSeq(H, 1, i - 1) \o SubSeq(H, i + 1, Len(H))

\* reduced_hamiltonian += term (line 372).  The sum is kept simplified: a
\* term on the qubits of an earlier term is merged into it, in its place,
\* and a term whose coefficient is zero is not kept.
PauliSumAdd(H, term) ==
    LET i == PositionOf(H, term.qubits) IN
    IF i = 0
    THEN IF term.coefficient = 0 THEN H ELSE Append(H, term)
    ELSE LET c == H[i].coefficient + term.coefficient IN
         IF c = 0 THEN RemoveAt(H, i)
         ELSE [H EXCEPT ![i] = PauliTerm(term.qubits, c)]

\* How the PauliTerm constructor treats an operator string that is empty
\* (line 372 for a constant term: "*".join([]) = "") or that names one qubit
\* twice ("Z0*Z0").  The constructor is not part of this repository, so each
\* treatment a PauliTerm implementation can give is an outcome: it raises,
\* or it builds the identity for the empty string; it raises, multiplies the
\* operators out (Z*Z = I) or keeps one operator per qubit for a repetition.
EmptyTreatments == {"raise", "identity"}

DuplicateTreatments == {"raise", "cancel", "overwrite"}

Unset == "unset"

LibBehaviours ==
    {[empty |-> a, duplicate |-> b] : a \in EmptyTreatments, b \in DuplicateTreatments}

\* What is known of the behaviour after a call that meets an empty string
\* (uses_empty) or a repeated qubit (uses_duplicate), when lib0 was known
\* before: a treatment once seen stays, one never met stays unset.
LibChoices(lib0, uses_empty, uses_duplicate) ==
    {[empty |-> a, duplicate |-> b] :
        a \in IF lib0.empty # Unset THEN {lib0.empty}
              ELSE IF uses_empty THEN EmptyTreatments ELSE {Unset},
        b \in IF lib0.duplicate # Unset THEN {lib0.duplicate}
              ELSE IF uses_duplicate THEN DuplicateTreatments ELSE {Unset}}

HasDuplicate(strs) == \E i, j \in DOMAIN strs : i # j /\ strs[i] = strs[j]

Occurrences(strs, q) == Cardinality({i \in DOMAIN strs : strs[i] = q})

\* PauliTerm("*".join(new_term_strs), coefficient) of line 372; strs[j] is the
\* qubit index k of the j-th string "Zk".
PauliTermFromStrs(strs, c, l) ==
    LET named == {strs[j] : j \in DOMAIN strs} IN
    IF strs = << >>
    THEN IF l.empty = "raise"
         THEN [err |-> "ValueError", term |-> PauliTerm({}, c)]
         ELSE [err |-> "none", term |-> PauliTerm({}, c)]
    ELSE IF HasDuplicate(strs)
    THEN IF l.duplicate = "raise"
         THEN [err |-> "ValueError", term |-> PauliTerm({}, c)]
         ELSE IF l.duplicate = "cancel"
         THEN [err |-> "none",
               term |-> PauliTerm({q \in named : Occurrences(strs, q) % 2 = 1}, c)]
         ELSE [err |-> "none", term |-> PauliTerm(named, c)]
    ELSE [err |-> "none", term |-> PauliTerm(named, c)]

(***************************************************************************)
(* recursive_qaoa.py: the functions.  A call that raises returns           *)
(* [err |-> the exception]; one that returns has err = "none".             *)
(***************************************************************************)
\* _create_default_qubit_map
CreateDefaultQubitMap(n) == [i \in 0 .. n - 1 |-> <<i, 1>>]

\* The loop of _find_term_with_strongest_correlation from term i on; ev[i] is
\* what cost_function_factory(term, ansatz)(optimal_params) returns for the
\* i-th term.  seen is the set of terms the cost function was built for.
RECURSIVE FindLoop(_, _, _, _, _, _)
FindLoop(H, ev, i, term, largest, seen) ==
    IF i > Len(H)
    THEN [err |-> "none", term |-> term, expval |-> largest, evaluated |-> seen]
    ELSE IF ~IsConstant(H[i])
    THEN IF Abs(ev[i]) > Abs(largest)
         THEN FindLoop(H, ev, i + 1, H[i], ev[i], seen \cup {i})
         ELSE FindLoop(H, ev, i + 1, term, largest, seen \cup {i})
    ELSE FindLoop(H, ev, i + 1, term, largest, seen)

\* _find_term_with_strongest_correlation
FindTermWithStrongestCorrelation(H, ev) ==
    IF Len(H) = 0
    THEN [err |-> "IndexError", term |-> PauliTerm({}, 0), expval |-> 0,
          evaluated |-> {}]
    ELSE FindLoop(H, ev, 1, H[1], 0, {})

\* _get_new_qubit_indice, for a term of at least two qubits (qubits[1] raises
\* IndexError otherwise: see the callers).
GetNewQubitIndice(old_indice, operator_with_largest_expval) ==
    LET qubits == SortedQubits(operator_with_largest_expval.qubits)
        qubit_to_get_rid_of == qubits[2]
        qubit_itll_be_replaced_with == qubits[1]
    IN  IF old_indice > qubit_to_get_rid_of THEN old_indice - 1
        ELSE IF old_indice = qubit_to_get_rid_of THEN qubit_itll_be_replaced_with
        ELSE old_indice

\* One turn of the loop of _update_qubit_map with lines 301-302 after lines
\* 303-305: the sign is decided on the renumbered qubit.
UpdateEntrySignAfterRenumbering(entry, term, expval) ==
    LET qubit_to_get_rid_of == Max(term.qubits) IN
    << GetNewQubitIndice(entry[1], term),
       IF GetNewQubitIndice(entry[1], term) = qubit_to_get_rid_of
       THEN entry[2] * Sign(expval)
       ELSE entry[2] >>

\* One turn of the loop of _update_qubit_map (lines 301-305).
UpdateEntry(entry, term, expval) ==
    LET qubit_to_get_rid_of == Max(term.qubits) IN
    << GetNewQubitIndice(entry[1], term),
       IF entry[1] = qubit_to_get_rid_of THEN entry[2] * Sign(expval)
       ELSE entry[2] >>

\* _update_qubit_map working on its argument itself: the caller's map is the
\* updated one.
ArgumentUpdatedInPlace(map, updated) == updated

\* The caller's map after _update_qubit_map, which works on a deepcopy (line
\* 294).
ArgumentAfterUpdate(map, updated) == map

\* _update_qubit_map
UpdateQubitMap(map, term, expval) ==
    IF term.qubits = {}
    THEN [err |-> "IndexError", map |-> map]          \* sorted(...)[ -1 ]
    ELSE IF Cardinality(term.qubits) < 2 /\ DOMAIN map # {}
    THEN [err |-> "IndexError", map |-> map]          \* qubits[1]
    ELSE [err |-> "none",
          map |-> [i \in DOMAIN map |-> UpdateEntry(map[i], term, expval)]]

\* new_term_strs and the coefficient of one rewritten term (lines 357-370).
RewrittenStrs(term, selected) ==
    LET qs == SortedQubits(term.qubits) IN
    [j \in 1 .. Len(qs) |-> GetNewQubitIndice(qs[j], selected)]

\* The coefficient with the test of line 369 on the qubit that stays.
RewrittenCoefficientOnKeptQubit(term, selected, expval) ==
    IF Min(selected.qubits) \in term.qubits
    THEN term.coefficient * Sign(expval)
    ELSE term.coefficient

RewrittenCoefficient(term, selected, expval) ==
    IF Max(selected.qubits) \in term.qubits
    THEN term.coefficient * Sign(expval)
    ELSE term.coefficient

\* The loop of _create_reduced_hamiltonian from term i on.
RECURSIVE ReduceLoop(_, _, _, _, _, _)
ReduceLoop(H, selected, expval, l, i, reduced) ==
    IF i > Len(H) THEN [err |-> "none", hamiltonian |-> reduced]
    ELSE IF H[i] = selected
    THEN ReduceLoop(H, selected, expval, l, i + 1, reduced)
    ELSE IF H[i].qubits # {} /\ Cardinality(selected.qubits) < 2
    THEN [err |-> "IndexError", hamiltonian |-> reduced]   \* qubits[1]
    ELSE LET made == PauliTermFromStrs(RewrittenStrs(H[i], selected),
                         RewrittenCoefficient(H[i], selected, expval), l)
         IN  IF made.err # "none"
             THEN [err |-> made.err, hamiltonian |-> reduced]
             ELSE ReduceLoop(H, selected, expval, l, i + 1,
                             PauliSumAdd(reduced, made.term))

\* _create_reduced_hamiltonian
CreateReducedHamiltonian(H, selected, expval, l) ==
    IF selected.qubits = {}
    THEN [err |-> "IndexError", hamiltonian |-> << >>]     \* sorted(...)[ -1 ]
    ELSE ReduceLoop(H, selected, expval, l, 1, << >>)

\* Whether the reduction hands PauliTerm an empty string / a repeated qubit.
UsesEmpty(H, selected) ==
    /\ selected.qubits # {}
    /\ \E i \in DOMAIN H : H[i] # selected /\ H[i].qubits = {}

UsesDuplicate(H, selected) ==
    /\ Cardinality(selected.qubits) >= 2
    /\ \E i \in DOMAIN H :
          H[i] # selected /\ HasDuplicate(RewrittenStrs(H[i], selected))

\* The inner loop without the flip of lines 399-403.
MapOneSolutionWithoutFlip(reduced_solution, map) ==
    [k \in 1 .. Cardinality(DOMAIN map) |-> reduced_solution[map[k - 1][1] + 1]]

\* The inner loop of _map_reduced_solutions_to_original_solutions.
MapOneSolution(reduced_solution, map) ==
    [k \in 1 .. Cardinality(DOMAIN map) |->
        LET this_answer == reduced_solution[map[k - 1][1] + 1] IN
        IF map[k - 1][2] = -1 THEN 1 - this_answer ELSE this_answer]

\* _map_reduced_solutions_to_original_solutions
MapReducedSolutionsToOriginalSolutions(sols, map) ==
    IF \E s \in DOMAIN sols : \E i \in DOMAIN map : map[i][1] + 1 > Len(sols[s])
    THEN [err |-> "IndexError", solutions |-> << >>]
    ELSE [err |-> "none",
          solutions |-> [s \in DOMAIN sols |-> MapOneSolution(sols[s], map)]]

(***************************************************************************)
(* orquestra.opt.problems.solve_problem_by_exhaustive_search, as line 193  *)
(* uses it: every bit string over n_qubits is tried and the ones of least  *)
(* value are returned, in the order tried.                                 *)
(***************************************************************************)
\* dec2bin(i, n): the n binary digits of i, most significant first.
RECURSIVE Dec2Bin(_, _)
Dec2Bin(i, n) == IF n = 0 THEN << >> ELSE Append(Dec2Bin(i \div 2, n - 1), i % 2)

\* The value (+1 or -1) of a product of Z operators on a bit string.
Parity(qs, bits) ==
    IF Cardinality({q \in qs : bits[q + 1] = 1}) % 2 = 0 THEN 1 ELSE -1

\* The value of a Hamiltonian on a bit string.
RECURSIVE EvaluateFrom(_, _, _)
EvaluateFrom(H, bits, i) ==
    IF i > Len(H) THEN 0
    ELSE H[i].coefficient * Parity(H[i].qubits, bits) + EvaluateFrom(H, bits, i + 1)

Evaluate(H, bits) == EvaluateFrom(H, bits, 1)

\* With no qubit the one bit string tried is dec2bin(0, 0), which is outside
\* the documented use of dec2bin: the empty string, or the digit of 0.
ZeroQubitTrials == {<< >>, <<0>>}

TrialSolutions(n, zero_trial) ==
    IF n = 0 THEN <<zero_trial>>
    ELSE [i \in 1 .. Pow2(n) |-> Dec2Bin(i - 1, n)]

\* The comparison of the search turned round.
IsGreatest(H, trials, t) == \A u \in DOMAIN trials : Evaluate(H, trials[t]) >= Evaluate(H, trials[u])

IsLeast(H, trials, t) == \A u \in DOMAIN trials : Evaluate(H, trials[t]) <= Evaluate(H, trials[u])

RECURSIVE LeastFrom(_, _, _)
LeastFrom(H, trials, t) ==
    IF t > Len(trials) THEN << >>
    ELSE IF IsLeast(H, trials, t) THEN <<trials[t]>> \o LeastFrom(H, trials, t + 1)
    ELSE LeastFrom(H, trials, t + 1)

SolveProblemByExhaustiveSearch(H, zero_trial) ==
    LET trials == TrialSolutions(NQubits(H), zero_trial)
        least == LeastFrom(H, trials, 1)
    IN  [best_value |-> Evaluate(H, least[1]), solutions |-> least]

(***************************************************************************)
(* The inputs of the model.                                                *)
(***************************************************************************)
Qubits == 0 .. MaxQubits - 1

\* Coefficients: both signs, so that merged terms can add up or cancel.
Coefficients == {-1, 1}

\* Ising terms: the constant term, the one-qubit Z term on qubit 0 and every
\* two-qubit Z term.
IsingQubitSets ==
    {S \in SUBSET Qubits : S = {} \/ S = {0} \/ Cardinality(S) = 2}

IsingTerms == {PauliTerm(qs, c) : qs \in IsingQubitSets, c \in Coefficients}

RECURSIVE Code(_)
Code(S) == IF S = {} THEN 0 ELSE Pow2(Max(S)) + Code(S \ {Max(S)})

\* Sequences of one to MaxTerms terms on different qubit sets (a PauliSum is
\* kept merged), in one fixed order of the qubit sets; the constant term, if
\* any, comes first, where the scorer starts from it.
Hamiltonians ==
    {H \in UNION {[1 .. k -> IsingTerms] : k \in 1 .. MaxTerms} :
        \A i, j \in DOMAIN H : i < j => Code(H[i].qubits) < Code(H[j].qubits)}

\* The Hamiltonian of the tests (recursive_qaoa_test.py, lines 38-43):
\* 5*Z0*Z1 + 2*Z0*Z3 + 0.5*Z1*Z2 + 0.6*Z2*Z3, coefficients times ten.
TestHamiltonian ==
    << PauliTerm({0, 1}, 50), PauliTerm({0, 3}, 20),
       PauliTerm({1, 2}, 5), PauliTerm({2, 3}, 6) >>

\* n_c as given to the constructor: too small, valid, too large.
NcValues == -1 .. MaxQubits

\* What one call of inner_optimizer.minimize reports (opt_results.nit, .nfev)
\* and how many times it calls the cost function, which is what a recorder
\* around the cost function keeps.
OptimizerReports == {[nit |-> 2, nfev |-> 3, calls |-> 3]}

\* The optimizer of the tests (recursive_qaoa_test.py, lines 86-104): one call
\* of the cost function, nfev = 1, nit = 1.
MockOptimizerReports == {[nit |-> 1, nfev |-> 1, calls |-> 1]}

\* Expectation values as the run sees them: only their sign and which is the
\* first of largest magnitude matter to the recursion.
RunExpvals == {-1, 0, 1}

\* The expectation values of the terms of H at one level: all zero, or one
\* term with a non-zero value.  The scorer keeps the first value of greatest
\* magnitude, so on any other choice over RunExpvals it returns what it
\* returns on one of these.
RunExpvalChoices(H) ==
    {[i \in DOMAIN H |-> IF i = j THEN v ELSE 0] :
        j \in DOMAIN H, v \in RunExpvals}

NoTerm == PauliTerm({}, 0)

NoMap == << >>

\* No result of minimize yet.
NoResult == [opt_value |-> 0, solutions |-> << >>]

(***************************************************************************)
(* The run: RecursiveQAOA(...) and minimize(...).                          *)
(***************************************************************************)
\* The grouping is not part of a run.
GroupingUnused ==
    /\ qubit_operator = << >>
    /\ sort_terms = FALSE
    /\ groups = << >>

\* The arguments of the constructor and of minimize, and how many times the
\* caller calls minimize; the ansatz is built on the cost Hamiltonian, as in
\* the tests (recursive_qaoa_test.py, lines 45-47).
RunInit(hamiltonians, optimizers, keep_flags, calls) ==
    /\ pc = "new"
    /\ n_c \in NcValues
    /\ self_cost_hamiltonian \in hamiltonians
    /\ cost_hamiltonian = << >>
    /\ qubit_map = NoMap
    /\ nit = 0
    /\ nfev = 0
    /\ expvals = << >>
    /\ term_with_largest_expval = NoTerm
    /\ largest_expval = 0
    /\ new_qubit_map = NoMap
    /\ reduced_cost_hamiltonian = << >>
    /\ reduced_solutions = << >>
    /\ solutions = << >>
    /\ opt_value = 0
    /\ n_recursions = 0
    /\ n_optimizer_calls = 0
    /\ evaluated = {}
    /\ lib = [empty |-> Unset, duplicate |-> Unset]
    /\ error = "none"
    /\ self_ansatz = self_cost_hamiltonian
    /\ ansatz = << >>
    /\ frames = << >>
    /\ inner_optimizer \in optimizers
    /\ keep_history \in keep_flags
    /\ histories = << >>
    /\ level_reports = << >>
    /\ evaluations = {}
    /\ calls_left = calls
    /\ first_result = NoResult
    /\ GroupingUnused

\* One call of minimize with keep_history, on every enumerated Hamiltonian.
Init == RunInit(Hamiltonians \cup {TestHamiltonian}, {OptimizerReports}, {TRUE}, 1)

\* Python raises through _recursive_minimize and minimize, which have no
\* handler: after a step that raised err the run is over, otherwise it is at
\* next_pc.
PcAfterContinuing(err, next_pc) == next_pc

PcAfter(err, next_pc) == IF err = "none" THEN next_pc ELSE "failed"

\* The check of line 62 with > for >=.
NcIsValidUpToNQubits(nc, n_qubits) == ~(nc > n_qubits \/ nc <= 0)

\* __init__ (lines 60-71)
NcIsValid(nc, n_qubits) == ~(nc >= n_qubits \/ nc <= 0)

Construct ==
    /\ pc = "new"
    /\ IF NcIsValid(n_c, NQubits(self_cost_hamiltonian))
       THEN pc' = "constructed" /\ error' = error
       ELSE pc' = "failed" /\ error' = "ValueError"
    /\ UNCHANGED <<n_c, self_cost_hamiltonian, cost_hamiltonian, qubit_map, nit,
                   nfev, expvals, term_with_largest_expval, largest_expval,
                   new_qubit_map, reduced_cost_hamiltonian, reduced_solutions,
                   solutions, opt_value, n_recursions, n_optimizer_calls,
                   evaluated, lib>>
    /\ UNCHANGED <<object_vars, ansatz, frames, caller_vars, history_vars,
                   evaluations, grouping_vars>>

\* _minimize (lines 92-107), up to the first call of _recursive_minimize: on
\* a new object, or again on one whose earlier call has returned (the caller
\* keeps the result of that call).
Minimize ==
    /\ pc \in {"constructed", "done"}
    /\ calls_left > 0
    /\ calls_left' = calls_left - 1
    /\ first_result' =
           IF pc = "done" THEN [opt_value |-> opt_value, solutions |-> solutions]
           ELSE first_result
    /\ qubit_map' = CreateDefaultQubitMap(NQubits(self_cost_hamiltonian))
    /\ cost_hamiltonian' = self_cost_hamiltonian
    /\ nit' = 0
    /\ nfev' = 0
    /\ histories' = << >>
    /\ level_reports' = << >>
    /\ n_recursions' = 1
    /\ n_optimizer_calls' = 0
    /\ ansatz' = << >>
    /\ frames' = << >>
    /\ term_with_largest_expval' = NoTerm
    /\ largest_expval' = 0
    /\ new_qubit_map' = NoMap
    /\ reduced_cost_hamiltonian' = << >>
    /\ reduced_solutions' = << >>
    /\ solutions' = << >>
    /\ opt_value' = 0
    /\ evaluated' = {}
    /\ pc' = "optimize"
    /\ UNCHANGED <<n_c, self_cost_hamiltonian, expvals, lib, error, object_vars,
                   keep_history, evaluations, grouping_vars>>

\* The stored ansatz after the level gave its own ansatz the Hamiltonian
\* given, without the copy of line 125.
AnsatzWithoutCopy(stored, given) == given

\* The stored ansatz after the level gave its own ansatz the Hamiltonian
\* given (lines 125-127): the level works on a copy.
AnsatzKept(stored, given) == stored

\* What the recorder of the cost function holds after the optimizer of the
\* level called it calls times: one entry <<level, call>> per call.
RecordedTrace(level, calls) == [k \in 1 .. calls |-> <<level, k>>]

\* extend_histories with the trace put before what was recorded so far.
PrependToHistories(history, trace) == trace \o history

\* extend_histories(cost_function, histories), line 139.
ExtendHistories(history, trace) == history \o trace

\* An exception of a collaborator leaves minimize: the frames of
\* _recursive_minimize, their arguments and locals are gone and nothing is
\* returned.
FramesUnwound ==
    /\ cost_hamiltonian' = << >>
    /\ qubit_map' = NoMap
    /\ ansatz' = << >>
    /\ frames' = << >>
    /\ nit' = 0
    /\ nfev' = 0
    /\ histories' = << >>
    /\ level_reports' = << >>
    /\ term_with_largest_expval' = NoTerm
    /\ largest_expval' = 0
    /\ evaluated' = {}
    /\ new_qubit_map' = NoMap
    /\ reduced_cost_hamiltonian' = << >>
    /\ reduced_solutions' = << >>
    /\ solutions' = << >>
    /\ opt_value' = 0

\* _recursive_minimize, lines 124-139: the QAOA circuit is set up and the
\* inner optimizer is run.  The cost function factory (line 129) or the
\* optimizer (line 135) may raise.
RunInnerOptimizer ==
    /\ pc = "optimize"
    /\ self_ansatz' = AnsatzKept(self_ansatz, cost_hamiltonian)
    /\ \E raised \in {"none", "FactoryError", "OptimizerError"} :
       \E opt_results \in inner_optimizer :
          /\ n_optimizer_calls' =
                 IF raised = "FactoryError" THEN n_optimizer_calls
                 ELSE n_optimizer_calls + 1
          /\ IF raised = "none"
             THEN /\ ansatz' = cost_hamiltonian
                  /\ nit' = nit + opt_results.nit
                  /\ nfev' = nfev + opt_results.nfev
                  /\ level_reports' = Append(level_reports, opt_results)
                  /\ histories' =
                         IF keep_history
                         THEN ExtendHistories(histories,
                                  RecordedTrace(n_recursions, opt_results.calls))
                         ELSE histories
                  /\ UNCHANGED <<cost_hamiltonian, qubit_map, frames,
                                 term_with_largest_expval, largest_expval,
                                 evaluated, new_qubit_map,
                                 reduced_cost_hamiltonian, reduced_solutions,
                                 solutions, opt_value>>
             ELSE FramesUnwound
          /\ error' = raised
          /\ pc' = PcAfter(raised, "score")
    /\ UNCHANGED <<n_c, self_cost_hamiltonian, expvals, n_recursions, lib>>
    /\ UNCHANGED <<inner_optimizer, caller_vars, evaluations, grouping_vars>>

\* The assertion of lines 163-170.
ReducedHasCorrectQubits(reduced, H, nc) ==
    \/ NQubits(reduced) = NQubits(H) - 1
    \/ (NQubits(reduced) = 0 /\ NQubits(H) = 2 /\ nc = 1)

\* [qubit_indices[0] for qubit_indices in new_qubit_map.values()], as a set.
CurrentQubits(map) == {map[i][1] : i \in DOMAIN map}

\* The assertion of lines 173-176.
MapHasCorrectQubits(map, H) ==
    NQubits(H) - 1 = Max(CurrentQubits(map)) + 1

\* What the term evaluation gave the scorer for the Hamiltonian H, if it was
\* evaluated before: the evaluation of a term (lines 253-254) is a function of
\* the term, the ansatz and the parameters.
EvaluationsOf(known, H) == {e \in known : e.hamiltonian = H}

\* _recursive_minimize, lines 141-150: the scorer.  ev is what the cost
\* function of each term returns at the optimal parameters; the cost function
\* factory may raise when there is a term to evaluate.  What the evaluation
\* gave is kept while minimize will be called again: within one call no
\* Hamiltonian is evaluated twice, every level having fewer qubits.
FindTerm ==
    /\ pc = "score"
    /\ \/ \E ev \in RunExpvalChoices(cost_hamiltonian) :
            LET found == FindTermWithStrongestCorrelation(cost_hamiltonian, ev)
                outcome == [hamiltonian |-> cost_hamiltonian,
                            term |-> found.term, expval |-> found.expval]
            IN  /\ \/ found.err # "none"
                   \/ EvaluationsOf(evaluations, cost_hamiltonian) \subseteq {outcome}
                /\ evaluations' =
                       IF found.err = "none" /\ calls_left > 0
                       THEN evaluations \cup {outcome}
                       ELSE evaluations
                /\ term_with_largest_expval' = found.term
                /\ largest_expval' = found.expval
                /\ evaluated' = found.evaluated
                /\ error' = found.err
                /\ pc' = PcAfter(found.err, "reduce")
                /\ UNCHANGED <<cost_hamiltonian, qubit_map, ansatz, frames,
                               nit, nfev, history_vars, new_qubit_map,
                               reduced_cost_hamiltonian, reduced_solutions,
                               solutions, opt_value>>
       \/ /\ \E i \in DOMAIN cost_hamiltonian : ~IsConstant(cost_hamiltonian[i])
          /\ FramesUnwound
          /\ error' = "FactoryError"
          /\ pc' = PcAfter("FactoryError", "reduce")
          /\ UNCHANGED evaluations
    /\ UNCHANGED <<n_c, self_cost_hamiltonian, expvals, n_recursions,
                   n_optimizer_calls, lib>>
    /\ UNCHANGED <<object_vars, caller_vars, grouping_vars>>

\* _recursive_minimize, lines 152-176: the new qubit map, the reduced
\* Hamiltonian and the two assertions.
ReduceProblem ==
    /\ pc = "reduce"
    /\ LET updated == UpdateQubitMap(qubit_map, term_with_largest_expval,
                                     largest_expval)
       IN  \E l \in LibChoices(lib,
                       UsesEmpty(cost_hamiltonian, term_with_largest_expval),
                       UsesDuplicate(cost_hamiltonian, term_with_largest_expval)) :
           LET reduced == CreateReducedHamiltonian(cost_hamiltonian,
                              term_with_largest_expval, largest_expval, l)
               raised ==
                   IF updated.err # "none" THEN updated.err
                   ELSE IF reduced.err # "none" THEN reduced.err
                   ELSE IF ~ReducedHasCorrectQubits(reduced.hamiltonian,
                                                    cost_hamiltonian, n_c)
                   THEN "AssertionError"
                   ELSE IF ~MapHasCorrectQubits(updated.map, cost_hamiltonian)
                   THEN "AssertionError"
                   ELSE "none"
           IN  /\ qubit_map' = ArgumentAfterUpdate(qubit_map, updated.map)
               /\ new_qubit_map' =
                      IF updated.err = "none" THEN updated.map ELSE new_qubit_map
               /\ reduced_cost_hamiltonian' =
                      IF updated.err = "none" /\ reduced.err = "none"
                      THEN reduced.hamiltonian ELSE reduced_cost_hamiltonian
               /\ lib' = IF updated.err = "none" THEN l ELSE lib
               /\ error' = raised
               /\ pc' = PcAfter(raised, "branch")
    /\ UNCHANGED <<n_c, self_cost_hamiltonian, cost_hamiltonian, nit,
                   nfev, expvals, term_with_largest_expval, largest_expval,
                   reduced_solutions, solutions, opt_value, n_recursions,
                   n_optimizer_calls, evaluated>>
    /\ UNCHANGED <<object_vars, ansatz, frames, caller_vars, history_vars,
                   evaluations, grouping_vars>>

\* The test of line 178, with >= for >.
ThresholdNotReachedOrMet(reduced, nc) == NQubits(reduced) >= nc

\* The test of line 178.
ThresholdNotReached(reduced, nc) == NQubits(reduced) > nc

\* _recursive_minimize, lines 178-190: the recursive call
Recurse ==
    /\ pc = "branch"
    /\ ThresholdNotReached(reduced_cost_hamiltonian, n_c)
    /\ cost_hamiltonian' = reduced_cost_hamiltonian
    /\ qubit_map' = new_qubit_map
    /\ frames' = Append(frames, [cost_hamiltonian |-> cost_hamiltonian,
                                 qubit_map |-> qubit_map])
    /\ n_recursions' = n_recursions + 1
    /\ pc' = "optimize"
    /\ UNCHANGED <<n_c, self_cost_hamiltonian, nit, nfev, expvals,
                   term_with_largest_expval, largest_expval, new_qubit_map,
                   reduced_cost_hamiltonian, reduced_solutions, solutions,
                   opt_value, n_optimizer_calls, evaluated, lib, error>>
    /\ UNCHANGED <<object_vars, ansatz, caller_vars, history_vars, evaluations,
                   grouping_vars>>

\* _recursive_minimize, lines 192-210: the reduced problem is solved by
\* exhaustive search, which may raise, and its solutions are mapped back
SolveAndMap ==
    /\ pc = "branch"
    /\ ~ThresholdNotReached(reduced_cost_hamiltonian, n_c)
    /\ \/ \E zero_trial \in IF NQubits(reduced_cost_hamiltonian) = 0
                            THEN ZeroQubitTrials ELSE {<< >>} :
            LET solved == SolveProblemByExhaustiveSearch(reduced_cost_hamiltonian,
                                                         zero_trial)
                mapped == MapReducedSolutionsToOriginalSolutions(solved.solutions,
                                                                 new_qubit_map)
            IN  /\ reduced_solutions' = solved.solutions
                /\ error' = mapped.err
                /\ pc' = PcAfter(mapped.err, "done")
                /\ IF mapped.err = "none"
                   THEN /\ solutions' = mapped.solutions
                        /\ opt_value' = solved.best_value
                        /\ frames' = << >>
                   ELSE UNCHANGED <<solutions, opt_value, frames>>
                /\ UNCHANGED <<cost_hamiltonian, qubit_map, ansatz, nit, nfev,
                               history_vars, term_with_largest_expval,
                               largest_expval, evaluated, new_qubit_map,
                               reduced_cost_hamiltonian>>
       \/ /\ FramesUnwound
          /\ error' = "SolverError"
          /\ pc' = PcAfter("SolverError", "done")
    /\ UNCHANGED <<n_c, self_cost_hamiltonian, expvals, n_recursions,
                   n_optimizer_calls, lib>>
    /\ UNCHANGED <<object_vars, caller_vars, evaluations, grouping_vars>>

Next ==
    \/ Construct
    \/ Minimize
    \/ RunInnerOptimizer
    \/ FindTerm
    \/ ReduceProblem
    \/ Recurse
    \/ SolveAndMap

Spec == Init /\ [][Next]_vars

(***************************************************************************)
(* Two calls of minimize on one object, with or without history, with      *)
(* either optimizer.                                                       *)
(***************************************************************************)
\* The Hamiltonians run twice: those of at most two terms, and the test one.
RerunHamiltonians ==
    {H \in Hamiltonians : Len(H) <= 2} \cup {TestHamiltonian}

RerunInit ==
    RunInit(RerunHamiltonians, {OptimizerReports, MockOptimizerReports}, BOOLEAN, 2)

SpecRerun == RerunInit /\ [][Next]_vars
(***************************************************************************)
(* The functions called on their own, as the tests call them: the          *)
(* arguments are drawn in FnInit and each action is one call.              *)
(***************************************************************************)
\* Expectation values given to the scorer.
Expvals == -MaxExpval .. MaxExpval

\* Expectation values given to the map update and to the reducer, which read
\* the sign only: zero, the smallest and the largest magnitudes.
SignedExpvals == {-MaxExpval, -1, 0, 1, MaxExpval}

\* Hamiltonians given to the scorer, which reads of a term only whether it is
\* constant: up to MaxTerms terms out of the constant term and the two-qubit
\* terms on three qubits, the constant term at any place.
ScorerTerms == {PauliTerm(qs, 1) : qs \in {{}, {0, 1}, {0, 2}, {1, 2}}}

ScorerHamiltonians ==
    {H \in UNION {[1 .. k -> ScorerTerms] : k \in 1 .. MaxTerms} :
        \A i, j \in DOMAIN H :
            i < j => /\ H[i].qubits # H[j].qubits
                     /\ \/ H[i].qubits = {}
                        \/ H[j].qubits = {}
                        \/ Code(H[i].qubits) < Code(H[j].qubits)}

\* Qubit maps of one to MaxMapSize original qubits: any current qubit below
\* the number of original qubits, either sign.
QubitMaps ==
    UNION {[0 .. n - 1 -> (0 .. n - 1) \X {-1, 1}] : n \in 1 .. MaxMapSize}

\* Terms given as term_with_largest_expval: the constant term, Z0, the
\* two-qubit terms on the qubits 0 .. n - 1 and the three-qubit term Z0*Z1*Z2.
SelectableTerms(n) ==
    {PauliTerm(qs, 1) :
        qs \in {S \in SUBSET (0 .. n - 1) :
                   S = {} \/ S = {0} \/ Cardinality(S) = 2 \/ S = {0, 1, 2}}}

TermsOf(H) == {H[i] : i \in DOMAIN H}

\* Reduced solutions: one or two bit strings over n qubits.
BitStrings(n) == [1 .. n -> {0, 1}]

SolutionLists(n) ==
    {<<a>> : a \in BitStrings(n)} \cup {<<a, b>> : a \in BitStrings(n), b \in BitStrings(n)}

\* Largest number of qubits of an enumerated reduced solution.
MaxReducedQubits == 2

\* The variables no single function reads or writes.
FnUnused ==
    /\ n_c = 0
    /\ self_cost_hamiltonian = << >>
    /\ nit = 0
    /\ nfev = 0
    /\ opt_value = 0
    /\ n_recursions = 0
    /\ n_optimizer_calls = 0
    /\ lib = [empty |-> Unset, duplicate |-> Unset]
    /\ error = "none"
    /\ new_qubit_map = NoMap
    /\ reduced_cost_hamiltonian = << >>
    /\ solutions = << >>
    /\ evaluated = {}
    /\ self_ansatz = << >>
    /\ ansatz = << >>
    /\ frames = << >>
    /\ inner_optimizer = {}
    /\ keep_history = FALSE
    /\ histories = << >>
    /\ level_reports = << >>
    /\ evaluations = {}
    /\ calls_left = 0
    /\ first_result = NoResult

FnInit ==
    /\ FnUnused
    /\ GroupingUnused
    /\ \/ /\ pc = "call_find"
          /\ cost_hamiltonian \in ScorerHamiltonians
          /\ expvals \in [DOMAIN cost_hamiltonian -> Expvals]
          /\ term_with_largest_expval = NoTerm
          /\ largest_expval = 0
          /\ qubit_map = NoMap
          /\ reduced_solutions = << >>
       \/ /\ pc = "call_update"
          /\ qubit_map \in QubitMaps \cup {CreateDefaultQubitMap(4)}
          /\ term_with_largest_expval \in SelectableTerms(MaxMapSize)
          /\ largest_expval \in SignedExpvals
          /\ cost_hamiltonian = << >>
          /\ expvals = << >>
          /\ reduced_solutions = << >>
       \/ /\ pc = "call_reduce"
          /\ cost_hamiltonian \in Hamiltonians \cup {TestHamiltonian}
          /\ term_with_largest_expval \in
                 TermsOf(cost_hamiltonian) \cup SelectableTerms(MaxQubits)
          /\ largest_expval \in SignedExpvals
          /\ qubit_map = NoMap
          /\ expvals = << >>
          /\ reduced_solutions = << >>
       \/ /\ pc = "call_map"
          /\ qubit_map \in
                 UNION {[0 .. n - 1 -> (0 .. MaxReducedQubits - 1) \X {-1, 1}] :
                            n \in 1 .. MaxMapSize}
          /\ reduced_solutions \in UNION {SolutionLists(n) : n \in 1 .. MaxReducedQubits}
          /\ cost_hamiltonian = << >>
          /\ expvals = << >>
          /\ term_with_largest_expval = NoTerm
          /\ largest_expval = 0

\* _find_term_with_strongest_correlation(hamiltonian, ansatz, optimal_params,
\* cost_function_factory)
CallFind ==
    /\ pc = "call_find"
    /\ LET found == FindTermWithStrongestCorrelation(cost_hamiltonian, expvals)
       IN  /\ term_with_largest_expval' = found.term
           /\ largest_expval' = found.expval
           /\ evaluated' = found.evaluated
           /\ error' = found.err
    /\ pc' = "ret_find"
    /\ UNCHANGED <<n_c, self_cost_hamiltonian, cost_hamiltonian, qubit_map, nit,
                   nfev, expvals, new_qubit_map, reduced_cost_hamiltonian,
                   reduced_solutions, solutions, opt_value, n_recursions,
                   n_optimizer_calls, lib>>
    /\ UNCHANGED <<object_vars, ansatz, frames, caller_vars, history_vars,
                   evaluations, grouping_vars>>

\* _update_qubit_map(qubit_map, term_with_largest_expval, largest_expval)
CallUpdate ==
    /\ pc = "call_update"
    /\ LET updated == UpdateQubitMap(qubit_map, term_with_largest_expval,
                                     largest_expval)
       IN  /\ qubit_map' = ArgumentAfterUpdate(qubit_map, updated.map)
           /\ new_qubit_map' = updated.map
           /\ error' = updated.err
    /\ pc' = "ret_update"
    /\ UNCHANGED <<n_c, self_cost_hamiltonian, cost_hamiltonian, nit,
                   nfev, expvals, term_with_largest_expval, largest_expval,
                   reduced_cost_hamiltonian, reduced_solutions, solutions,
                   opt_value, n_recursions, n_optimizer_calls, evaluated, lib>>
    /\ UNCHANGED <<object_vars, ansatz, frames, caller_vars, history_vars,
                   evaluations, grouping_vars>>

\* _create_reduced_hamiltonian(hamiltonian, term_with_largest_expval,
\* largest_expval)
CallReduce ==
    /\ pc = "call_reduce"
    /\ \E l \in LibChoices(lib,
                    UsesEmpty(cost_hamiltonian, term_with_largest_expval),
                    UsesDuplicate(cost_hamiltonian, term_with_largest_expval)) :
         LET reduced == CreateReducedHamiltonian(cost_hamiltonian,
                            term_with_largest_expval, largest_expval, l)
         IN  /\ reduced_cost_hamiltonian' = reduced.hamiltonian
             /\ error' = reduced.err
             /\ lib' = l
    /\ pc' = "ret_reduce"
    /\ UNCHANGED <<n_c, self_cost_hamiltonian, cost_hamiltonian, qubit_map, nit,
                   nfev, expvals, term_with_largest_expval, largest_expval,
                   new_qubit_map, reduced_solutions, solutions, opt_value,
                   n_recursions, n_optimizer_calls, evaluated>>
    /\ UNCHANGED <<object_vars, ansatz, frames, caller_vars, history_vars,
                   evaluations, grouping_vars>>

\* _map_reduced_solutions_to_original_solutions(reduced_solutions, qubit_map)
CallMap ==
    /\ pc = "call_map"
    /\ LET mapped == MapReducedSolutionsToOriginalSolutions(reduced_solutions,
                                                            qubit_map)
       IN  /\ solutions' = mapped.solutions
           /\ error' = mapped.err
    /\ pc' = "ret_map"
    /\ UNCHANGED <<n_c, self_cost_hamiltonian, cost_hamiltonian, qubit_map, nit,
                   nfev, expvals, term_with_largest_expval, largest_expval,
                   new_qubit_map, reduced_cost_hamiltonian, reduced_solutions,
                   opt_value, n_recursions, n_optimizer_calls, evaluated, lib>>
    /\ UNCHANGED <<object_vars, ansatz, frames, caller_vars, history_vars,
                   evaluations, grouping_vars>>

FnNext ==
    \/ CallFind
    \/ CallUpdate
    \/ CallReduce
    \/ CallMap

SpecFn == FnInit /\ [][FnNext]_vars

(***************************************************************************)
(* Runs and single calls together.                                         *)
(***************************************************************************)
AllInit == Init \/ FnInit

AllNext == Next \/ FnNext

SpecAll == AllInit /\ [][AllNext]_vars

(***************************************************************************)
(* orquestra.vqa.grouping._grouping: group_comeasureable_terms_greedy.     *)
(* A term is its operations (a Pauli operator on each qubit it acts on)    *)
(* and its coefficient; a group is the terms of a PauliSum in the order    *)
(* they were added.                                                        *)
(***************************************************************************)
\* Most terms of an enumerated qubit operator.
MaxGroupTerms == 3

GroupQubits == {0, 1}

GroupPaulis == {"X", "Z"}

GroupCoefficients == {1, -2}

\* PauliTerm(term._ops, term.coefficient)
GroupTerm(ops, c) == [ops |-> ops, coefficient |-> c]

GroupTerms ==
    {GroupTerm(ops, c) :
        ops \in UNION {[S -> GroupPaulis] : S \in SUBSET GroupQubits},
        c \in GroupCoefficients}

\* Qubit operators of up to MaxGroupTerms terms with different operations
\* (a PauliSum is kept merged), in any order.
QubitOperators ==
    {O \in UNION {[1 .. k -> GroupTerms] : k \in 0 .. MaxGroupTerms} :
        \A i, j \in DOMAIN O : i < j => O[i].ops # O[j].ops}

\* Two terms are taken as co-measureable only when they share no qubit.
ActOnDifferentQubits(term_1, term_2) ==
    DOMAIN term_1.ops \cap DOMAIN term_2.ops = {}

\* is_comeasureable
IsComeasureable(term_1, term_2) ==
    \A qubit_1 \in DOMAIN term_1.ops : \A qubit_2 \in DOMAIN term_2.ops :
        qubit_1 = qubit_2 => term_1.ops[qubit_1] = term_2.ops[qubit_2]

\* sorted(..., key=lambda x: abs(x.coefficient), reverse=True) puts a term
\* behind the terms of greater or equal magnitude that came before it.
RECURSIVE InsertByMagnitude(_, _)
InsertByMagnitude(sorted, term) ==
    IF sorted = << >> THEN <<term>>
    ELSE IF Abs(Head(sorted).coefficient) >= Abs(term.coefficient)
    THEN <<Head(sorted)>> \o InsertByMagnitude(Tail(sorted), term)
    ELSE <<term>> \o sorted

RECURSIVE SortByMagnitudeFrom(_, _, _)
SortByMagnitudeFrom(terms, i, sorted) ==
    IF i > Len(terms) THEN sorted
    ELSE SortByMagnitudeFrom(terms, i + 1, InsertByMagnitude(sorted, terms[i]))

\* terms_iterator (lines 105-112)
TermsIterator(terms, sorting) ==
    IF sorting THEN SortByMagnitudeFrom(terms, 1, << >>) ELSE terms

\* term.is_constant
IsConstantTerm(term) == DOMAIN term.ops = {}

\* groups[i] += term: the sum is kept merged, a term of the same operations
\* takes the sum of the coefficients and leaves when the sum is zero.
RECURSIVE GroupAdd(_, _)
GroupAdd(group, term) ==
    IF group = << >> THEN <<term>>
    ELSE IF Head(group).ops = term.ops
    THEN IF Head(group).coefficient + term.coefficient = 0
         THEN Tail(group)
         ELSE <<GroupTerm(term.ops, Head(group).coefficient + term.coefficient)>>
                  \o Tail(group)
    ELSE <<Head(group)>> \o GroupAdd(Tail(group), term)

\* The loop of lines 119-127 from group i on: the index of the first group
\* all of whose terms are co-measureable with the term, 0 when there is none.
RECURSIVE FirstGroupFor(_, _, _)
FirstGroupFor(gs, term, i) ==
    IF i > Len(gs) THEN 0
    ELSE IF \A k \in DOMAIN gs[i] : IsComeasureable(term, gs[i][k]) THEN i
    ELSE FirstGroupFor(gs, term, i + 1)

\* The loop of lines 114-131 from the k-th term of the iterator on;
\* constant_term is << >> for None.
RECURSIVE GroupLoop(_, _, _, _)
GroupLoop(terms, k, gs, constant_term) ==
    IF k > Len(terms)
    THEN IF constant_term # << >> THEN Append(gs, constant_term) ELSE gs
    ELSE IF IsConstantTerm(terms[k])
    THEN GroupLoop(terms, k + 1, gs,
                   <<GroupTerm(<< >>, terms[k].coefficient)>>)
    ELSE LET i == FirstGroupFor(gs, terms[k], 1) IN
         IF i # 0
         THEN GroupLoop(terms, k + 1,
                        [gs EXCEPT ![i] = GroupAdd(gs[i], terms[k])],
                        constant_term)
         ELSE GroupLoop(terms, k + 1, Append(gs, <<terms[k]>>), constant_term)

\* group_comeasureable_terms_greedy
GroupComeasureableTermsGreedy(operator, sorting) ==
    GroupLoop(TermsIterator(operator, sorting), 1, << >>, << >>)

\* A call of group_comeasureable_terms_greedy: no RecursiveQAOA object.
GroupInit ==
    /\ FnUnused
    /\ pc = "call_group"
    /\ qubit_operator \in QubitOperators
    /\ sort_terms \in BOOLEAN
    /\ groups = << >>
    /\ cost_hamiltonian = << >>
    /\ expvals = << >>
    /\ term_with_largest_expval = NoTerm
    /\ largest_expval = 0
    /\ qubit_map = NoMap
    /\ reduced_solutions = << >>

CallGroup ==
    /\ pc = "call_group"
    /\ groups' = GroupComeasureableTermsGreedy(qubit_operator, sort_terms)
    /\ pc' = "ret_group"
    /\ UNCHANGED <<n_c, self_cost_hamiltonian, cost_hamiltonian, qubit_map, nit,
                   nfev, expvals, term_with_largest_expval, largest_expval,
                   new_qubit_map, reduced_cost_hamiltonian, reduced_solutions,
                   solutions, opt_value, n_recursions, n_optimizer_calls,
                   evaluated, lib, error>>
    /\ UNCHANGED <<object_vars, ansatz, frames, caller_vars, history_vars,
                   evaluations, qubit_operator, sort_terms>>

GroupNext == CallGroup

SpecGroup == GroupInit /\ [][GroupNext]_vars

(***************************************************************************)
(* The claims.                                                             *)
(***************************************************************************)
\* C1: a run that returns a result has made exactly n - n_c calls of
\* _recursive_minimize, n the number of qubits of the cost Hamiltonian, and
\* has called the inner optimizer exactly once in each of them.
C1_RecursionCount ==
    pc = "done" =>
        /\ n_recursions = NQubits(self_cost_hamiltonian) - n_c
        /\ n_optimizer_calls = n_recursions

\* A run of the test Hamiltonian with n_c = 1 has returned after 3 levels.
C1_Witness ==
    /\ pc = "done"
    /\ self_cost_hamiltonian = TestHamiltonian
    /\ n_c = 1
    /\ n_recursions = 3

\* C2: once a level has computed the reduced Hamiltonian of a Hamiltonian
\* in which every qubit below n_qubits appears, from a term with a non-zero
\* expectation value, the reduced Hamiltonian has one qubit less than the
\* Hamiltonian of the level, or none when that one has 2 qubits and n_c = 1
\* (the assertion of lines 163-170 holds).
C2_ReducedHasOneQubitLess ==
    (/\ pc \in {"branch", "failed"}
     /\ error \in {"none", "AssertionError"}
     /\ QubitsOf(cost_hamiltonian) = 0 .. NQubits(cost_hamiltonian) - 1
     /\ largest_expval # 0)
    => \/ NQubits(reduced_cost_hamiltonian) = NQubits(cost_hamiltonian) - 1
       \/ /\ NQubits(reduced_cost_hamiltonian) = 0
          /\ NQubits(cost_hamiltonian) = 2
          /\ n_c = 1

\* C3: after a level that passed its assertions, the current qubits stored
\* in the new qubit map are exactly 0 .. n_level - 1, n_level the number of
\* qubits of the reduced Hamiltonian.
C3_MapCoversReducedQubits ==
    pc = "branch" =>
        CurrentQubits(new_qubit_map) = 0 .. NQubits(reduced_cost_hamiltonian) - 1

\* renumber(k, eliminated, surviving) of the statement of C4 and C5.
Renumber(k, eliminated, surviving) ==
    IF k > eliminated THEN k - 1
    ELSE IF k = eliminated THEN surviving
    ELSE k

\* The coefficient a sum of terms gives to the product of Z on the qubits S.
RECURSIVE CoefficientFrom(_, _, _)
CoefficientFrom(H, S, i) ==
    IF i > Len(H) THEN 0
    ELSE (IF H[i].qubits = S THEN H[i].coefficient ELSE 0)
         + CoefficientFrom(H, S, i + 1)

CoefficientOf(H, S) == CoefficientFrom(H, S, 1)

\* The term of the statement of C4 for the term u of H: every index
\* renumbered, the coefficient times sign(e) iff u contains the eliminated
\* index.
RewrittenTerm(u, t, e) ==
    LET eliminated == Max(t.qubits)
        surviving == Min(t.qubits)
    IN  PauliTerm({Renumber(k, eliminated, surviving) : k \in u.qubits},
                  IF eliminated \in u.qubits THEN u.coefficient * Sign(e)
                  ELSE u.coefficient)

\* The rewritten terms of every term of H other than t, from the i-th on.
RECURSIVE RewrittenTermsFrom(_, _, _, _)
RewrittenTermsFrom(H, t, e, i) ==
    IF i > Len(H) THEN << >>
    ELSE IF H[i] = t THEN RewrittenTermsFrom(H, t, e, i + 1)
    ELSE <<RewrittenTerm(H[i], t, e)>> \o RewrittenTermsFrom(H, t, e, i + 1)

\* A sum is kept simplified: no two terms on the same qubits, no zero term.
IsSimplified(H) ==
    /\ \A i, j \in DOMAIN H : i # j => H[i].qubits # H[j].qubits
    /\ \A i \in DOMAIN H : H[i].coefficient # 0

\* No term of H other than t holds both qubits of t (its rewritten string
\* would name the surviving qubit twice).
NoTermOnBothQubits(H, t) ==
    \A i \in DOMAIN H : H[i] # t => ~(t.qubits \subseteq H[i].qubits)

\* C4: a call _create_reduced_hamiltonian(H, t, e) that returns, t a
\* two-qubit term and no other term of H holding both qubits of t, returns
\* exactly the sum, over every term of H other than t, of the term with every
\* index k replaced by renumber(k) and the coefficient multiplied by sign(e)
\* iff the term held the eliminated index: the result is simplified and gives
\* every product of Z the coefficient that sum gives it.  Removing 5*Z0Z1
\* from the test Hamiltonian gives 2*Z0Z2 + 0.5*Z0Z1 + 0.6*Z1Z2 for e > 0 and
\* 2*Z0Z2 - 0.5*Z0Z1 + 0.6*Z1Z2 for e < 0.
C4_ReducedIsSumOfRewrittenTerms ==
    (/\ pc = "ret_reduce"
     /\ error = "none"
     /\ Cardinality(term_with_largest_expval.qubits) = 2
     /\ NoTermOnBothQubits(cost_hamiltonian, term_with_largest_expval))
    => /\ IsSimplified(reduced_cost_hamiltonian)
       /\ \A S \in SUBSET (0 .. NQubits(cost_hamiltonian)) :
             CoefficientOf(reduced_cost_hamiltonian, S) =
                 CoefficientOf(RewrittenTermsFrom(cost_hamiltonian,
                                   term_with_largest_expval, largest_expval, 1), S)
       /\ (/\ cost_hamiltonian = TestHamiltonian
           /\ term_with_largest_expval = PauliTerm({0, 1}, 50))
          => reduced_cost_hamiltonian =
                 << PauliTerm({0, 2}, 20),
                    PauliTerm({0, 1}, 5 * Sign(largest_expval)),
                    PauliTerm({1, 2}, 6) >>
                 \/ largest_expval = 0

\* The reduction of the test Hamiltonian by 5*Z0Z1 with a negative
\* expectation value has returned 2*Z0Z2 - 0.5*Z0Z1 + 0.6*Z1Z2.
C4_Witness ==
    /\ pc = "ret_reduce"
    /\ error = "none"
    /\ cost_hamiltonian = TestHamiltonian
    /\ term_with_largest_expval = PauliTerm({0, 1}, 50)
    /\ largest_expval < 0
    /\ reduced_cost_hamiltonian =
           << PauliTerm({0, 2}, 20), PauliTerm({0, 1}, -5), PauliTerm({1, 2}, 6) >>

\* C5: a call _update_qubit_map(map, t, e) that returns, t a two-qubit term,
\* returns a map on the same original qubits whose entry for each original
\* qubit i comes from the entry of i before the call alone: the current
\* qubit is renumber(current qubit before), and the sign is multiplied by
\* sign(e) iff the current qubit before was the larger qubit of t.
C5_EntryFromOwnOldEntry ==
    (/\ pc = "ret_update"
     /\ error = "none"
     /\ Cardinality(term_with_largest_expval.qubits) = 2)
    => /\ DOMAIN new_qubit_map = DOMAIN qubit_map
       /\ \A i \in DOMAIN qubit_map :
             LET eliminated == Max(term_with_largest_expval.qubits)
                 surviving == Min(term_with_largest_expval.qubits)
             IN  /\ new_qubit_map[i][1] =
                        Renumber(qubit_map[i][1], eliminated, surviving)
                 /\ new_qubit_map[i][2] =
                        IF qubit_map[i][1] = eliminated
                        THEN qubit_map[i][2] * Sign(largest_expval)
                        ELSE qubit_map[i][2]

\* A map in which two original qubits share the current qubit 1 has been
\* updated for Z0Z1 with a negative expectation value: both moved to qubit 0
\* with their signs flipped, the third entry is as it was.
C5_Witness ==
    /\ pc = "ret_update"
    /\ error = "none"
    /\ term_with_largest_expval.qubits = {0, 1}
    /\ largest_expval < 0
    /\ qubit_map = (0 :> <<1, 1>>) @@ (1 :> <<1, -1>>) @@ (2 :> <<0, 1>>)
    /\ new_qubit_map = (0 :> <<0, -1>>) @@ (1 :> <<0, 1>>) @@ (2 :> <<0, 1>>)

\* What the statement of C6 asks of the solutions mapped back from the
\* reduced solutions rs through the map: one tuple per reduced solution, each
\* of one bit per original qubit, the bit of the original qubit i being the
\* bit of its current qubit, complemented when its sign is -1.
IsMappedBack(sols, rs, map) ==
    /\ Len(sols) = Len(rs)
    /\ \A s \in DOMAIN sols :
          /\ Len(sols[s]) = Cardinality(DOMAIN map)
          /\ \A i \in DOMAIN map :
                /\ sols[s][i + 1] \in {0, 1}
                /\ map[i][2] = 1 => sols[s][i + 1] = rs[s][map[i][1] + 1]
                /\ map[i][2] = -1 => sols[s][i + 1] = 1 - rs[s][map[i][1] + 1]

\* C6: a call of _map_reduced_solutions_to_original_solutions that returns
\* gives one tuple per reduced solution, of exactly one bit per original
\* qubit, each bit taken from the current qubit of the map and complemented
\* when the sign is -1; and every solution a run returns has as many bits as
\* the cost Hamiltonian has qubits.
C6_MappedSolutionsHaveOriginalLength ==
    /\ (pc = "ret_map" /\ error = "none")
       => IsMappedBack(solutions, reduced_solutions, qubit_map)
    /\ pc = "done"
       => /\ IsMappedBack(solutions, reduced_solutions, new_qubit_map)
          /\ \A s \in DOMAIN solutions :
                Len(solutions[s]) = NQubits(self_cost_hamiltonian)

\* A run of the test Hamiltonian with n_c = 2 has returned the two 4-bit
\* solutions mapped back from the two solutions of its 2-qubit problem.
C6_Witness ==
    /\ pc = "done"
    /\ self_cost_hamiltonian = TestHamiltonian
    /\ n_c = 2
    /\ reduced_solutions = << <<0, 1>>, <<1, 0>> >>
    /\ solutions = << <<0, 1, 0, 1>>, <<1, 0, 1, 0>> >>

\* C7: a call of _find_term_with_strongest_correlation on a Hamiltonian with
\* a non-constant term returns a non-constant term i of it with its own
\* expectation value, no non-constant term has a larger magnitude, none
\* before i has the same magnitude, and no constant term was evaluated; for
\* every assignment of expectation values, all zero included, and with the
\* constant term at any place.
C7_ScorerReturnsStrongestNonConstant ==
    (/\ pc = "ret_find"
     /\ \E i \in DOMAIN cost_hamiltonian : ~IsConstant(cost_hamiltonian[i]))
    => /\ \E i \in DOMAIN cost_hamiltonian :
             /\ ~IsConstant(cost_hamiltonian[i])
             /\ term_with_largest_expval = cost_hamiltonian[i]
             /\ largest_expval = expvals[i]
             /\ \A j \in DOMAIN cost_hamiltonian :
                   ~IsConstant(cost_hamiltonian[j])
                       => /\ Abs(expvals[j]) <= Abs(expvals[i])
                          /\ j < i => Abs(expvals[j]) < Abs(expvals[i])
       /\ \A j \in evaluated : ~IsConstant(cost_hamiltonian[j])

\* The constructor has refused n_c (ValueError before any level).
ConstructorFailed == pc = "failed" /\ error = "ValueError" /\ n_recursions = 0

\* C8: once the constructor has run, it has failed with ValueError exactly
\* when n_c <= 0 or n_c >= n, n the number of qubits of the cost
\* Hamiltonian; and after a failure no level has started and the inner
\* optimizer has not been called.
C8_ConstructorRejectsExactlyBadNc ==
    pc # "new" =>
        /\ ConstructorFailed <=>
               (n_c <= 0 \/ n_c >= NQubits(self_cost_hamiltonian))
        /\ ConstructorFailed =>
               /\ n_optimizer_calls = 0
               /\ cost_hamiltonian = << >>
               /\ qubit_map = NoMap
               /\ solutions = << >>

\* The constructor has refused n_c = n for a Hamiltonian of n = 3 qubits.
C8_Witness ==
    /\ ConstructorFailed
    /\ NQubits(self_cost_hamiltonian) = 3
    /\ n_c = 3

\* x has the least value of H among the assignments X.
AttainsMinimum(H, x, X) == \A y \in X : Evaluate(H, x) <= Evaluate(H, y)

\* The assignment of the original qubits that a map gives for the assignment
\* r of the current qubits.
BackMapped(r, map) ==
    [k \in 1 .. Cardinality(DOMAIN map) |->
        IF map[k - 1][2] = -1 THEN 1 - r[map[k - 1][1] + 1]
        ELSE r[map[k - 1][1] + 1]]

\* The assignments of the original qubits that a map can give.
ConsistentAssignments(map) ==
    {BackMapped(r, map) : r \in BitStrings(Max(CurrentQubits(map)) + 1)}

\* C9, as stated: every solution a run returns has the least value of the
\* cost Hamiltonian among all 2^N assignments of its N qubits (looked at for
\* the runs whose last reduced Hamiltonian still has a qubit).
C9_SolutionsAttainGlobalMinimum ==
    (pc = "done" /\ NQubits(reduced_cost_hamiltonian) > 0) =>
        \A s \in DOMAIN solutions :
            AttainsMinimum(self_cost_hamiltonian, solutions[s],
                           BitStrings(NQubits(self_cost_hamiltonian)))

\* C9, amended: every solution a run returns is mapped back, through the
\* final qubit map, from an assignment of least value of the last reduced
\* Hamiltonian; and when no level selected a zero expectation value (no sign
\* of the final map is 0) it has the least value of the cost Hamiltonian
\* among the assignments the final map can give, those that satisfy the
\* relations the levels fixed.  It need not have the least value among all
\* 2^N assignments.
C9_SolutionsAttainConstrainedMinimum ==
    pc = "done" =>
        /\ Len(solutions) = Len(reduced_solutions)
        /\ \A s \in DOMAIN solutions :
              /\ solutions[s] = BackMapped(reduced_solutions[s], new_qubit_map)
              /\ AttainsMinimum(reduced_cost_hamiltonian, reduced_solutions[s],
                                BitStrings(NQubits(reduced_cost_hamiltonian)))
        /\ (\A i \in DOMAIN new_qubit_map : new_qubit_map[i][2] # 0)
           => \A s \in DOMAIN solutions :
                 AttainsMinimum(self_cost_hamiltonian, solutions[s],
                                ConsistentAssignments(new_qubit_map))

\* A run whose levels all selected a non-zero expectation value, and whose
\* last reduced Hamiltonian still has a qubit, has returned a solution that
\* does not have the least value of the cost Hamiltonian.
C9_Witness ==
    /\ pc = "done"
    /\ NQubits(reduced_cost_hamiltonian) > 0
    /\ \A i \in DOMAIN new_qubit_map : new_qubit_map[i][2] # 0
    /\ \E s \in DOMAIN solutions :
          ~AttainsMinimum(self_cost_hamiltonian, solutions[s],
                          BitStrings(NQubits(self_cost_hamiltonian)))

\* The solutions the statement of C10 expects.
ExpectedTestSolutions == {<<1, 0, 1, 0>>, <<0, 1, 0, 1>>}

\* C10: a run of the test Hamiltonian with n_c = 1 that returns, every
\* level having selected a non-zero expectation value and every solution it
\* returns being one of (1,0,1,0) and (0,1,0,1), has made 3 levels and its
\* solutions, as a set, are {(1,0,1,0), (0,1,0,1)}.
C10_TestRunReturnsBothSolutions ==
    (/\ pc = "done"
     /\ self_cost_hamiltonian = TestHamiltonian
     /\ n_c = 1
     /\ \A i \in DOMAIN new_qubit_map : new_qubit_map[i][2] # 0
     /\ \A s \in DOMAIN solutions : solutions[s] \in ExpectedTestSolutions)
    => /\ n_recursions = 3
       /\ {solutions[s] : s \in DOMAIN solutions} = ExpectedTestSolutions

\* C11: when the exhaustive solver has run, the reduced Hamiltonian it was
\* given has exactly n_c qubits, each of its solutions has n_c bits, and every
\* current qubit of the final map is a position of each reduced solution.
C11_SolverGetsNcQubits ==
    reduced_solutions # << >> =>
        /\ NQubits(reduced_cost_hamiltonian) = n_c
        /\ \A s \in DOMAIN reduced_solutions :
              /\ Len(reduced_solutions[s]) = n_c
              /\ \A i \in DOMAIN new_qubit_map :
                    new_qubit_map[i][1] + 1 \in 1 .. Len(reduced_solutions[s])

\* The sum of a count over the reports of the levels.
RECURSIVE SumOfReports(_, _)
SumOfReports(reports, field) ==
    IF reports = << >> THEN 0
    ELSE reports[1][field] + SumOfReports(Tail(reports), field)

\* The traces of the levels from level k on, one after the other.
RECURSIVE TracesInLevelOrder(_, _)
TracesInLevelOrder(reports, k) ==
    IF k > Len(reports) THEN << >>
    ELSE RecordedTrace(k, reports[k].calls) \o TracesInLevelOrder(reports, k + 1)

\* C12: a run that returns reports as nit and nfev the sums over its levels
\* of what the inner optimizer reported and, with keep_history, the traces
\* of the levels one after the other, first level first (nothing without
\* keep_history); with the optimizer of one iteration and one evaluation,
\* nit, nfev and the length of the history are n_qubits - n_c.
C12_CountsAndHistoryAccumulate ==
    pc = "done" =>
        /\ Len(level_reports) = n_recursions
        /\ nit = SumOfReports(level_reports, "nit")
        /\ nfev = SumOfReports(level_reports, "nfev")
        /\ histories = IF keep_history
                       THEN TracesInLevelOrder(level_reports, 1)
                       ELSE << >>
        /\ inner_optimizer = MockOptimizerReports =>
              /\ nit = NQubits(self_cost_hamiltonian) - n_c
              /\ nfev = NQubits(self_cost_hamiltonian) - n_c
              /\ keep_history =>
                    Len(histories) = NQubits(self_cost_hamiltonian) - n_c

\* The run of test_keeps_history_across_multiple_recursions with n_c = 2 has
\* returned: two levels, one recorded call each.
C12_Witness ==
    /\ pc = "done"
    /\ self_cost_hamiltonian = TestHamiltonian
    /\ n_c = 2
    /\ keep_history
    /\ inner_optimizer = MockOptimizerReports
    /\ histories = << <<1, 1>>, <<2, 1>> >>
    /\ nit = 2

\* The failures of the collaborators: inner_optimizer.minimize, the cost
\* function factory, solve_problem_by_exhaustive_search.
CollaboratorFailures == {"OptimizerError", "FactoryError", "SolverError"}

\* C13: once the inner optimizer, the cost function factory or the exhaustive
\* solver has raised, the run has failed with that exception: the optimizer
\* was called at most once at the level that failed, nothing more happens (no
\* retry, no further level), and there is no solution, value, count or
\* history.
C13_CollaboratorFailurePropagates ==
    error \in CollaboratorFailures =>
        /\ pc = "failed"
        /\ ~ENABLED Next
        /\ n_optimizer_calls \in {n_recursions - 1, n_recursions}
        /\ solutions = << >>
        /\ opt_value = 0
        /\ nit = 0
        /\ nfev = 0
        /\ histories = << >>

\* The inner optimizer has raised at the second level.
C13_Witness ==
    /\ pc = "failed"
    /\ error = "OptimizerError"
    /\ n_recursions = 2
    /\ n_optimizer_calls = 2

\* The solutions of a result, as a set.
SolutionSet(sols) == {sols[s] : s \in DOMAIN sols}

\* A second call of minimize on the object has returned, after a first one
\* that returned.
SecondRunReturned == pc = "done" /\ first_result # NoResult

\* C14: with an optimizer that reports the same and terms that evaluate the
\* same, a second run on the same object returns the optimal value and the
\* set of solutions of the first; every run starts from the stored
\* Hamiltonian and the identity map; no step changes the stored Hamiltonian,
\* the stored ansatz or n_c.
C14_SecondRunRepeatsFirst ==
    /\ [](SecondRunReturned =>
            /\ opt_value = first_result.opt_value
            /\ SolutionSet(solutions) = SolutionSet(first_result.solutions))
    /\ []((pc = "optimize" /\ n_recursions = 1) =>
            /\ cost_hamiltonian = self_cost_hamiltonian
            /\ qubit_map = CreateDefaultQubitMap(NQubits(self_cost_hamiltonian)))
    /\ [][/\ self_cost_hamiltonian' = self_cost_hamiltonian
          /\ self_ansatz' = self_ansatz
          /\ n_c' = n_c]_vars

\* The second run on the test Hamiltonian with n_c = 2 has returned the two
\* solutions.
C14_Witness ==
    /\ SecondRunReturned
    /\ self_cost_hamiltonian = TestHamiltonian
    /\ n_c = 2
    /\ n_recursions = 2
    /\ Len(solutions) = 2

\* C15: a call of _find_term_with_strongest_correlation on a Hamiltonian
\* without a non-constant term does not return: it fails with InvalidState.
C15_ScorerRejectsConstantOnly ==
    (/\ pc = "ret_find"
     /\ \A i \in DOMAIN cost_hamiltonian : IsConstant(cost_hamiltonian[i]))
    => error = "InvalidState"

\* The recursion level an exception leaving a run names, 0 for none.  The
\* exceptions are the collaborators' and the library's own and the two bare
\* asserts of lines 163-176; _recursive_minimize catches none of them and
\* raises none itself, so none names a level.
LevelNamedBy(err) == 0

\* C16: a run that failed inside a level failed with an error that names
\* that level.
C16_FailureNamesItsLevel ==
    (pc = "failed" /\ n_recursions >= 1) => LevelNamedBy(error) = n_recursions

\* There is a qubit on which the two terms carry different Pauli operators.
CarryDifferentPaulis(a, b) ==
    \E q \in DOMAIN a.ops \cap DOMAIN b.ops : a.ops[q] # b.ops[q]

\* The place of a term of the operator in the order the loop takes the terms.
PlaceInIteration(term) ==
    LET terms == TermsIterator(qubit_operator, sort_terms)
    IN  CHOOSE p \in DOMAIN terms : terms[p] = term

\* Where a term stands in the returned groups.
PlacesInGroups(term) ==
    {gk \in UNION {{g} \X DOMAIN groups[g] : g \in DOMAIN groups} :
        groups[gk[1]][gk[2]] = term}

\* C17: after group_comeasureable_terms_greedy, every non-constant term of
\* the operator stands, with its coefficient, at exactly one place of the
\* groups, and the groups hold nothing else but the constant term; no two
\* terms of a group carry different Pauli operators on a qubit; for every
\* group before the one a term is in, a term that was already there when the
\* term was placed is not co-measureable with it; the constant term is in no
\* group with other terms and is a group of its own, the last one.
C17_GreedyGroups ==
    pc = "ret_group" =>
        LET given == {qubit_operator[i] : i \in DOMAIN qubit_operator}
            constants == {t \in given : IsConstantTerm(t)}
            last == Len(groups)
        IN  /\ \A t \in given \ constants : Cardinality(PlacesInGroups(t)) = 1
            /\ \A g \in DOMAIN groups : \A k \in DOMAIN groups[g] :
                  groups[g][k] \in given
            /\ \A g \in DOMAIN groups : \A k, m \in DOMAIN groups[g] :
                  ~CarryDifferentPaulis(groups[g][k], groups[g][m])
            /\ \A g \in DOMAIN groups : \A k \in DOMAIN groups[g] :
                  \A h \in 1 .. g - 1 :
                     IsConstantTerm(groups[g][k])
                     \/ \E m \in DOMAIN groups[h] :
                           /\ PlaceInIteration(groups[h][m])
                                  < PlaceInIteration(groups[g][k])
                           /\ CarryDifferentPaulis(groups[g][k], groups[h][m])
            /\ \A g \in DOMAIN groups : groups[g] # << >>
            /\ IF constants = {}
               THEN \A g \in DOMAIN groups : \A k \in DOMAIN groups[g] :
                       ~IsConstantTerm(groups[g][k])
               ELSE /\ last >= 1
                    /\ Len(groups[last]) = 1
                    /\ groups[last][1] \in constants
                    /\ \A g \in 1 .. last - 1 : \A k \in DOMAIN groups[g] :
                          ~IsConstantTerm(groups[g][k])

\* Three terms in two groups: the term taken last has joined the first group
\* although it is co-measureable with the second one too.
C17_Witness ==
    /\ pc = "ret_group"
    /\ Len(groups) = 2
    /\ Len(groups[1]) = 2
    /\ Len(groups[2]) = 1
    /\ ~IsConstantTerm(groups[2][1])
    /\ PlaceInIteration(groups[2][1]) < PlaceInIteration(groups[1][2])
    /\ ~CarryDifferentPaulis(groups[1][2], groups[2][1])

\* C18: a call _create_reduced_hamiltonian(H, t, e) that returns, t a
\* two-qubit term and no other term of H holding both qubits of t, returns a
\* sum without two terms on the same qubits, and for any two terms of H other
\* than t that are rewritten onto the same qubits the sum holds one term on
\* those qubits whose coefficient is the sum of the two rewritten
\* coefficients, zero included.
C18_MergedTermCarriesTheSum ==
    (/\ pc = "ret_reduce"
     /\ error = "none"
     /\ Cardinality(term_with_largest_expval.qubits) = 2
     /\ NoTermOnBothQubits(cost_hamiltonian, term_with_largest_expval))
    => /\ \A i, j \in DOMAIN reduced_cost_hamiltonian :
             i # j => reduced_cost_hamiltonian[i].qubits
                          # reduced_cost_hamiltonian[j].qubits
       /\ \A i, j \in DOMAIN cost_hamiltonian :
             LET u == RewrittenTerm(cost_hamiltonian[i],
                                    term_with_largest_expval, largest_expval)
                 v == RewrittenTerm(cost_hamiltonian[j],
                                    term_with_largest_expval, largest_expval)
             IN  (/\ i < j
                  /\ cost_hamiltonian[i] # term_with_largest_expval
                  /\ cost_hamiltonian[j] # term_with_largest_expval
                  /\ u.qubits = v.qubits)
                 => \E k \in DOMAIN reduced_cost_hamiltonian :
                       reduced_cost_hamiltonian[k] =
                           PauliTerm(u.qubits, u.coefficient + v.coefficient)

\* C19: in a run, whatever expectation values the levels found, zero
\* included, every sign of the qubit map of a level and of the map updated
\* from it is +1 or -1.
C19_SignsArePlusOrMinusOne ==
    /\ \A i \in DOMAIN qubit_map : qubit_map[i][2] \in {-1, 1}
    /\ \A i \in DOMAIN new_qubit_map : new_qubit_map[i][2] \in {-1, 1}

\* The term Z*Z = Identity gives for the term u of H: the two qubits of t, if
\* u holds both, cancel; else the term of the statement of C4.
FoldedTerm(u, t, e) ==
    IF t.qubits \subseteq u.qubits
    THEN PauliTerm({Renumber(k, Max(t.qubits), Min(t.qubits)) :
                        k \in u.qubits \ t.qubits},
                   u.coefficient * Sign(e))
    ELSE RewrittenTerm(u, t, e)

RECURSIVE FoldedTermsFrom(_, _, _, _)
FoldedTermsFrom(H, t, e, i) ==
    IF i > Len(H) THEN << >>
    ELSE IF H[i] = t THEN FoldedTermsFrom(H, t, e, i + 1)
    ELSE <<FoldedTerm(H[i], t, e)>> \o FoldedTermsFrom(H, t, e, i + 1)

\* C20: a call _create_reduced_hamiltonian(H, t, e), t a two-qubit term with
\* e # 0 and H without constant term, in which a term of H other than t holds
\* both qubits of t, returns, and returns the sum in which that term has
\* become the term without the two qubits (a constant term for a term on
\* exactly the two qubits), not a term on the surviving qubit.
C20_FoldedPairBecomesConstant ==
    (/\ pc = "ret_reduce"
     /\ Cardinality(term_with_largest_expval.qubits) = 2
     /\ largest_expval # 0
     /\ \A i \in DOMAIN cost_hamiltonian : ~IsConstant(cost_hamiltonian[i])
     /\ ~NoTermOnBothQubits(cost_hamiltonian, term_with_largest_expval))
    => /\ error = "none"
       /\ \A S \in SUBSET (0 .. NQubits(cost_hamiltonian)) :
             CoefficientOf(reduced_cost_hamiltonian, S) =
                 CoefficientOf(FoldedTermsFrom(cost_hamiltonian,
                                   term_with_largest_expval, largest_expval, 1), S)

\* C21: a call _create_reduced_hamiltonian(H, t, e), t a two-qubit term, on
\* an H that holds a constant term and no other term on both qubits of t
\* returns without error, and the sum it returns holds no constant term.
C21_ConstantTermIsDropped ==
    (/\ pc = "ret_reduce"
     /\ Cardinality(term_with_largest_expval.qubits) = 2
     /\ \E i \in DOMAIN cost_hamiltonian : IsConstant(cost_hamiltonian[i])
     /\ NoTermOnBothQubits(cost_hamiltonian, term_with_largest_expval))
    => /\ error = "none"
       /\ \A k \in DOMAIN reduced_cost_hamiltonian :
             ~IsConstant(reduced_cost_hamiltonian[k])

\* C22: in every step, a call of _update_qubit_map or of
\* _create_reduced_hamiltonian leaves the map and the Hamiltonian it is given
\* as they are; while a level runs, its Hamiltonian and its map stay the same
\* and the one new map it makes is what _update_qubit_map returns for them; a
\* deeper level starts from the reduced Hamiltonian and the new map, and the
\* Hamiltonian and map of every level waiting for it stay what they were
\* until the run is left.
C22_LevelsKeepTheirArguments ==
    [][/\ pc \in {"reduce", "call_update", "call_reduce"} =>
             /\ qubit_map' = qubit_map
             /\ cost_hamiltonian' = cost_hamiltonian
       /\ (/\ n_recursions' = n_recursions
           /\ pc \notin {"constructed", "done"}
           /\ error' \notin CollaboratorFailures) =>
             /\ qubit_map' = qubit_map
             /\ cost_hamiltonian' = cost_hamiltonian
       /\ new_qubit_map' # new_qubit_map =>
             \/ /\ pc = "reduce"
                /\ new_qubit_map' = UpdateQubitMap(qubit_map,
                                        term_with_largest_expval,
                                        largest_expval).map
             \/ pc = "call_update"
             \/ new_qubit_map' = NoMap
       /\ (n_recursions' = n_recursions + 1 /\ n_recursions >= 1) =>
             /\ frames' = Append(frames, [cost_hamiltonian |-> cost_hamiltonian,
                                          qubit_map |-> qubit_map])
             /\ cost_hamiltonian' = reduced_cost_hamiltonian
             /\ qubit_map' = new_qubit_map
       /\ \/ \A k \in DOMAIN frames :
                k \in DOMAIN frames' /\ frames'[k] = frames[k]
          \/ frames' = << >> /\ pc' \in {"done", "failed", "optimize"}]_vars

\* The second level has made its new map while the first level waits with the
\* Hamiltonian and the identity map it was given.
C22_Witness ==
    /\ pc = "branch"
    /\ n_recursions = 2
    /\ Len(frames) = 1
    /\ frames[1].cost_hamiltonian = self_cost_hamiltonian
    /\ frames[1].qubit_map = CreateDefaultQubitMap(NQubits(self_cost_hamiltonian))
    /\ qubit_map # frames[1].qubit_map
    /\ new_qubit_map # qubit_map

\* The assignment of the qubits of H that the solution x of the reduced
\* problem stands for after one level that selected t with expectation value
\* e: x mapped back through the update of the identity map.
OneLevelBack(H, t, e, x) ==
    MapOneSolution(x, UpdateQubitMap(CreateDefaultQubitMap(NQubits(H)), t, e).map)

\* C23: a call _create_reduced_hamiltonian(H, t, e) that returns, H made of
\* two-qubit terms, t one of them and e # 0, returns a sum whose value at
\* every assignment x of NQubits(H) - 1 qubits, plus t.coefficient * sign(e),
\* is the value of H at the assignment x stands for (bit b is spin 1 - 2b).
C23_ReductionKeepsEnergies ==
    (/\ pc = "ret_reduce"
     /\ error = "none"
     /\ largest_expval # 0
     /\ \A i \in DOMAIN cost_hamiltonian :
           Cardinality(cost_hamiltonian[i].qubits) = 2
     /\ term_with_largest_expval \in TermsOf(cost_hamiltonian))
    => \A x \in BitStrings(NQubits(cost_hamiltonian) - 1) :
          Evaluate(cost_hamiltonian,
                   OneLevelBack(cost_hamiltonian, term_with_largest_expval,
                                largest_expval, x))
              = Evaluate(reduced_cost_hamiltonian, x)
                    + term_with_largest_expval.coefficient * Sign(largest_expval)

\* The test Hamiltonian has been reduced by 2*Z0Z3 with a negative
\* expectation value.
C23_Witness ==
    /\ pc = "ret_reduce"
    /\ error = "none"
    /\ cost_hamiltonian = TestHamiltonian
    /\ term_with_largest_expval = PauliTerm({0, 3}, 20)
    /\ largest_expval < 0
    /\ Len(reduced_cost_hamiltonian) = 3

\* C24: the opt_value a run returns is the value of the cost Hamiltonian the
\* object was built with at each solution the run returns; stated for the
\* runs whose levels all found a non-zero expectation value and whose last
\* reduced Hamiltonian has a qubit left.
C24_OptValueIsValueOfSolutions ==
    (/\ pc = "done"
     /\ NQubits(reduced_cost_hamiltonian) > 0
     /\ \A i \in DOMAIN new_qubit_map : new_qubit_map[i][2] # 0) =>
        \A s \in DOMAIN solutions :
            opt_value = Evaluate(self_cost_hamiltonian, solutions[s])

\* The index _get_new_qubit_indice removes for the term t: the one it puts
\* onto a smaller index that stays.
RemovedByRenumbering(t) ==
    CHOOSE q \in 0 .. Max(t.qubits) :
        \E k \in 0 .. q - 1 : GetNewQubitIndice(k, t) = GetNewQubitIndice(q, t)

\* C25: for a selected term t of two or more qubits and a negative
\* expectation value, a call of _update_qubit_map that returns has changed
\* the sign of exactly the entries whose current qubit is the index the
\* renumbering removes, and a call of _create_reduced_hamiltonian that
\* returns has changed the sign of the coefficient of exactly the terms that
\* hold that index.
C25_OneEliminatedQubit ==
    (/\ pc \in {"ret_update", "ret_reduce"}
     /\ error = "none"
     /\ largest_expval < 0
     /\ Cardinality(term_with_largest_expval.qubits) >= 2)
    => LET removed == RemovedByRenumbering(term_with_largest_expval) IN
       /\ pc = "ret_update" =>
             \A i \in DOMAIN qubit_map :
                new_qubit_map[i][2] # qubit_map[i][2]
                    <=> qubit_map[i][1] = removed
       /\ pc = "ret_reduce" =>
             \A i \in DOMAIN cost_hamiltonian :
                cost_hamiltonian[i] # term_with_largest_expval =>
                   (RewrittenCoefficient(cost_hamiltonian[i],
                                         term_with_largest_expval, largest_expval)
                        # cost_hamiltonian[i].coefficient
                    <=> removed \in cost_hamiltonian[i].qubits)

=============================================================================
